---- MODULE Spec2Model ----
(***************************************************************************)
(* The diet planner's session (app.py) and its extraction pipeline         *)
(* (ai_dietitian.py, models.py) as a state machine.                        *)
(*                                                                         *)
(* One step of the machine is one user request handled by one run of the   *)
(* Streamlit script main(): a chat message, a click on one of the buttons. *)
(* The language model ("oracle") is the environment: every call draws its  *)
(* outcome (a transport error, or a text) from a bounded set.              *)
(***************************************************************************)
EXTENDS Integers, Sequences, FiniteSets, TLC

VARIABLES
    messages,               \* st.session_state.messages
    user_profile,           \* st.session_state.user_profile
    diet_plan,              \* st.session_state.diet_plan
    conversation_complete,  \* st.session_state.conversation_complete
    pydantic,               \* major version of the installed pydantic (1 or 2)
    answer,                 \* the oracle's answer under study, when one is fixed
    last                    \* what the last request did (its trace)

session == <<messages, user_profile, diet_plan, conversation_complete>>
env == <<pydantic, answer>>
vars == <<messages, user_profile, diet_plan, conversation_complete, pydantic,
          answer, last>>

-----------------------------------------------------------------------------
(* Bounds of the model.                                                    *)

\* Longest transcript explored (a chat request adds two messages).
MaxMessages == 6
\* Largest number of keys removed from a well-formed profile object.
MaxMissing == 1
\* Largest number of pieces (fence markers, newlines, document, words) of
\* an oracle text given to the clean-up.
MaxPieces == 5

-----------------------------------------------------------------------------
(* Python values.                                                          *)

\* Python's None and an object reference, for Optional[...] session slots.
None == <<>>
Some(x) == <<x>>
Get(opt) == opt[1]

\* JSON values as json.loads builds them. Each kind has its own field
\* names, so values of different kinds are unequal without comparing parts.
JNull == [k |-> "null"]
JStr(s) == [k |-> "str", s |-> s]
JInt(n) == [k |-> "int", n |-> n]
\* A float w (frac = FALSE) or w + 0.5 (frac = TRUE).
JFlt(w, frac) == [k |-> "float", w |-> w, frac |-> frac]
JList(items) == [k |-> "list", items |-> items]
JObj(o) == [k |-> "obj", o |-> o]

\* Strings that Python's int() and float() parse, with their values.
IntLiterals == {"28", "0"}
IntOfLiteral(s) == CASE s = "28" -> 28 [] s = "0" -> 0

-----------------------------------------------------------------------------
(* models.py: the enumerations.                                            *)

ActivityLevel ==
    {"sedentary", "lightly_active", "moderately_active", "very_active",
     "extremely_active"}

Goal ==
    {"weight_loss", "weight_gain", "maintenance", "muscle_gain",
     "general_health"}

DietaryRestriction ==
    {"none", "vegetarian", "vegan", "gluten_free", "dairy_free", "nut_free",
     "low_carb", "keto", "paleo"}

MealTime == {"breakfast", "lunch", "dinner", "snacks"}

-----------------------------------------------------------------------------
(* pydantic's field validation, as models.py declares the fields.          *)
(* A validator returns None on a validation error and Some(value) with the *)
(* coerced value otherwise. v is pydantic's major version.                 *)

\* str(x) of a JSON number.
NumText(x) ==
    IF x.k = "int" THEN ToString(x.n)
    ELSE ToString(x.w) \o (IF x.frac THEN ".5" ELSE ".0")

\* A field annotated str: pydantic 1 coerces numbers, pydantic 2 does not.
ValidateStr(v, x) ==
    IF x.k = "str" THEN Some(x)
    ELSE IF v = 1 /\ x.k \in {"int", "float"} THEN Some(JStr(NumText(x)))
    ELSE None

\* int(x) of a float: truncation toward zero.
Trunc(x) == IF x.frac /\ x.w < 0 THEN x.w + 1 ELSE x.w

\* A mutant of ValidateInt: a string is never taken for an int.
ValidateInt_NoStr(v, x) ==
    IF x.k = "int" THEN Some(x)
    ELSE IF x.k = "float" THEN
        IF v = 1 \/ ~x.frac THEN Some(JInt(Trunc(x))) ELSE None
    ELSE None

\* A field annotated int. pydantic 1 applies int(x); pydantic 2 (lax mode)
\* takes a float only when it has no fractional part.
ValidateInt(v, x) ==
    IF x.k = "int" THEN Some(x)
    ELSE IF x.k = "float" THEN
        IF v = 1 \/ ~x.frac THEN Some(JInt(Trunc(x))) ELSE None
    ELSE IF x.k = "str" /\ x.s \in IntLiterals THEN Some(JInt(IntOfLiteral(x.s)))
    ELSE None

\* A field annotated float: float(x).
ValidateFloat(v, x) ==
    IF x.k = "float" THEN Some(x)
    ELSE IF x.k = "int" THEN Some(JFlt(x.n, FALSE))
    ELSE IF x.k = "str" /\ x.s \in IntLiterals
        THEN Some(JFlt(IntOfLiteral(x.s), FALSE))
    ELSE None

\* A mutant of ValidateEnum: any string passes.
ValidateEnum_AnyStr(members, x) == IF x.k = "str" THEN Some(x) ELSE None

\* A field annotated with a str-valued Enum: the value must be a member.
ValidateEnum(members, x) ==
    IF x.k = "str" /\ x.s \in members THEN Some(x) ELSE None

\* Dict[str, str]: a JSON object whose every value validates as str.
ValidateDictStr(v, x) ==
    IF x.k # "obj" THEN None
    ELSE LET each == [key \in DOMAIN x.o |-> ValidateStr(v, x.o[key])]
         IN  IF \E key \in DOMAIN each : each[key] = None THEN None
             ELSE Some(JObj([key \in DOMAIN each |-> Get(each[key])]))

\* Dict[str, Any]: any JSON object.
ValidateDictAny(x) == IF x.k = "obj" THEN Some(x) ELSE None

\* The annotations of models.py.
TStr == [t |-> "str"]
TInt == [t |-> "int"]
TFloat == [t |-> "float"]
TDictStr == [t |-> "Dict[str, str]"]
TDictAny == [t |-> "Dict[str, Any]"]
TEnum(members) == [t |-> "Enum", members |-> members]
TOptional(T) == [t |-> "Optional", of |-> T]
TList(T) == [t |-> "List", of |-> T]
TModel(class) == [t |-> "BaseModel", class |-> class]

-----------------------------------------------------------------------------
(* models.py: the models, each field with its annotation.                  *)

UserProfileSchema ==
    [name |-> TStr, age |-> TInt, gender |-> TStr, height_cm |-> TFloat,
     weight_kg |-> TFloat, target_weight_kg |-> TOptional(TFloat),
     activity_level |-> TEnum(ActivityLevel), goal |-> TEnum(Goal),
     dietary_restrictions |-> TList(TEnum(DietaryRestriction)),
     allergies |-> TList(TStr), preferences |-> TList(TStr),
     dislikes |-> TList(TStr), daily_routine |-> TDictStr,
     cooking_skill |-> TStr, budget_constraint |-> TOptional(TStr),
     cultural_preferences |-> TList(TStr)]

ProfileFields == DOMAIN UserProfileSchema

\* The fields annotated Optional[...]. They carry Field(description=...)
\* and no default: pydantic 1 gives them the default None, pydantic 2
\* requires them.
ProfileOptional == {"target_weight_kg", "budget_constraint"}

\* A mutant of ProfileRequired: every field has a default.
ProfileRequired_Nothing(v) == {}

ProfileRequired(v) ==
    IF v = 1 THEN ProfileFields \ ProfileOptional ELSE ProfileFields

MealPlanSchema ==
    [meal_time |-> TEnum(MealTime), meal_name |-> TStr, description |-> TStr,
     ingredients |-> TList(TStr), instructions |-> TList(TStr),
     nutrition_info |-> TDictAny, prep_time |-> TStr, cooking_time |-> TStr,
     difficulty |-> TStr]

DailyPlanSchema ==
    [day |-> TStr, meals |-> TList(TModel("MealPlan")),
     total_calories |-> TInt, total_protein |-> TFloat,
     total_carbs |-> TFloat, total_fat |-> TFloat,
     notes |-> TOptional(TStr)]

\* notes: Optional[str] has no default: as for ProfileOptional.
DailyRequired(v) ==
    IF v = 1 THEN DOMAIN DailyPlanSchema \ {"notes"}
    ELSE DOMAIN DailyPlanSchema

WeeklyDietPlanSchema ==
    [user_profile |-> TModel("UserProfile"),
     daily_plans |-> TList(TModel("DailyPlan")),
     weekly_summary |-> TDictAny, recommendations |-> TList(TStr),
     shopping_list |-> TList(TStr), created_date |-> TStr]

\* The annotations of a model class, and its fields without a default.
Schema(class) ==
    CASE class = "UserProfile" -> UserProfileSchema
      [] class = "MealPlan" -> MealPlanSchema
      [] class = "DailyPlan" -> DailyPlanSchema
      [] class = "WeeklyDietPlan" -> WeeklyDietPlanSchema

\* A mutant of Required: a List[...] field has the default [].
Required_NoLists(v, class) ==
    {f \in DOMAIN Schema(class) : Schema(class)[f].t # "List"}

Required(v, class) ==
    CASE class = "UserProfile" -> ProfileRequired(v)
      [] class = "DailyPlan" -> DailyRequired(v)
      [] OTHER -> DOMAIN Schema(class)

RECURSIVE Validate(_, _, _)
RECURSIVE BaseModel(_, _, _)

\* The validation of value x for a field annotated T. Optional[T] accepts
\* null as it is; List[T] takes a JSON array whose every element validates;
\* a model class takes a JSON object that validates.
Validate(v, T, x) ==
    CASE T.t = "str" -> ValidateStr(v, x)
      [] T.t = "int" -> ValidateInt(v, x)
      [] T.t = "float" -> ValidateFloat(v, x)
      [] T.t = "Dict[str, str]" -> ValidateDictStr(v, x)
      [] T.t = "Dict[str, Any]" -> ValidateDictAny(x)
      [] T.t = "Enum" -> ValidateEnum(T.members, x)
      [] T.t = "Optional" ->
            IF x.k = "null" THEN Some(JNull) ELSE Validate(v, T.of, x)
      [] T.t = "List" ->
            IF x.k # "list" THEN None
            ELSE LET each == [i \in 1..Len(x.items) |->
                                Validate(v, T.of, x.items[i])]
                 IN  IF \E i \in DOMAIN each : each[i] = None THEN None
                     ELSE Some(JList([i \in DOMAIN each |-> Get(each[i])]))
      [] T.t = "BaseModel" ->
            IF x.k = "obj" THEN BaseModel(v, T.class, x.o) ELSE None

\* class(**data) for a dict data: None when pydantic raises
\* ValidationError, Some(model) otherwise. Keys that are no field are
\* ignored; an absent field that is not required is None.
BaseModel(v, class, data) ==
    LET given == DOMAIN Schema(class) \cap DOMAIN data
        each == [f \in given |-> Validate(v, Schema(class)[f], data[f])]
    IN  IF \/ \E f \in Required(v, class) : f \notin given
           \/ \E f \in given : each[f] = None
        THEN None
        ELSE Some([f \in DOMAIN Schema(class) |->
                     IF f \in given THEN Get(each[f]) ELSE JNull])

UserProfile(v, data) == BaseModel(v, "UserProfile", data)

WeeklyDietPlan(v, data) == BaseModel(v, "WeeklyDietPlan", data)

-----------------------------------------------------------------------------
(* ai_dietitian.py: from the oracle's text to a model.                     *)

\* A text is a sequence of characters. DOC stands for the characters of one
\* serialized JSON document, PROSE for words that are no JSON.
DOC == "<json>"
PROSE == "<words>"
Whitespace == {" ", "\n"}
\* The backquote character.
Tick == "'"
FenceJson == <<Tick, Tick, Tick, "j", "s", "o", "n">>
Fence == <<Tick, Tick, Tick>>

\* str.strip()
Strip(t) ==
    LET keep == {i \in 1..Len(t) : t[i] \notin Whitespace}
        lo == CHOOSE i \in keep : \A j \in keep : i <= j
        hi == CHOOSE i \in keep : \A j \in keep : j <= i
    IN  IF keep = {} THEN <<>> ELSE SubSeq(t, lo, hi)

\* str.startswith, str.endswith
StartsWith(t, p) == Len(t) >= Len(p) /\ SubSeq(t, 1, Len(p)) = p
EndsWith(t, p) == Len(t) >= Len(p) /\ SubSeq(t, Len(t) - Len(p) + 1, Len(t)) = p

\* "Clean up the response to extract just the JSON": strip(), then
\* content[7:] after a fence opener tagged json, then content[:-3] before
\* a fence closer.
Sanitize(raw) ==
    LET content == Strip(raw)
        opened == IF StartsWith(content, FenceJson)
                  THEN SubSeq(content, Len(FenceJson) + 1, Len(content))
                  ELSE content
    IN  IF EndsWith(opened, Fence)
        THEN SubSeq(opened, 1, Len(opened) - Len(Fence))
        ELSE opened

\* json.loads(content), when the document that the text carries is doc:
\* None for JSONDecodeError. Whitespace around the document is skipped.
JsonLoads(content, doc) ==
    IF Strip(content) = <<DOC>> THEN Some(doc) ELSE None

\* An oracle call's outcome: the exception it raised, or its text together
\* with the JSON document the text carries.
OracleError == [error |-> TRUE]
OracleText(text, doc) == [text |-> text, doc |-> doc]
IsError(resp) == DOMAIN resp = {"error"}

\* A mutant of Pipeline: the except clause does not catch the TypeError of
\* class(**data) for a document that is no JSON object.
Pipeline_TypeErrorEscapes(v, class, resp) ==
    IF IsError(resp) THEN [value |-> None, status |-> "oracle_error"]
    ELSE LET parsed == JsonLoads(Sanitize(resp.text), resp.doc)
             built == IF Get(parsed).k = "obj"
                      THEN BaseModel(v, class, Get(parsed).o)
                      ELSE None
         IN  IF parsed = None THEN [value |-> None, status |-> "malformed"]
             ELSE IF Get(parsed).k # "obj"
                  THEN [value |-> None, status |-> "raised"]
             ELSE IF built = None THEN [value |-> None, status |-> "invalid"]
             ELSE [value |-> built, status |-> "ok"]

\* The try/except of extract_user_profile and of create_diet_plan from the
\* oracle's answer on: the value returned (the model, or None after any
\* exception) and how the block ended. A document that is no JSON object
\* makes class(**data) raise TypeError.
Pipeline(v, class, resp) ==
    IF IsError(resp) THEN [value |-> None, status |-> "oracle_error"]
    ELSE LET parsed == JsonLoads(Sanitize(resp.text), resp.doc)
             built == IF Get(parsed).k = "obj"
                      THEN BaseModel(v, class, Get(parsed).o)
                      ELSE None
         IN  IF parsed = None THEN [value |-> None, status |-> "malformed"]
             ELSE IF built = None THEN [value |-> None, status |-> "invalid"]
             ELSE [value |-> built, status |-> "ok"]

extract_user_profile(v, resp) == Pipeline(v, "UserProfile", resp)

\* create_diet_plan builds its prompt with user_profile.json(indent=2)
\* before the try block. pydantic 2's BaseModel.json takes no json.dumps
\* keyword and raises TypeError, which leaves create_diet_plan before the
\* oracle is called; pydantic 1 serializes the profile.
create_diet_plan(v, resp) ==
    IF v = 2 THEN [value |-> None, status |-> "raised"]
    ELSE Pipeline(v, "WeeklyDietPlan", resp)

-----------------------------------------------------------------------------
(* The oracle's answers explored.                                          *)

\* The profile of demo.py's conversation, as a JSON object.
ProfileJson1 ==
    [name |-> JStr("Sarah"), age |-> JInt(28), gender |-> JStr("female"),
     height_cm |-> JFlt(165, FALSE), weight_kg |-> JFlt(72, TRUE),
     target_weight_kg |-> JFlt(63, TRUE),
     activity_level |-> JStr("sedentary"), goal |-> JStr("weight_loss"),
     dietary_restrictions |-> JList(<<JStr("none")>>),
     allergies |-> JList(<<>>),
     preferences |-> JList(<<JStr("fish"), JStr("pasta")>>),
     dislikes |-> JList(<<JStr("spicy food")>>),
     daily_routine |-> JObj([wake_up |-> JStr("7 AM")]),
     cooking_skill |-> JStr("beginner"), budget_constraint |-> JNull,
     cultural_preferences |-> JList(<<JStr("Mediterranean")>>)]

\* Another well-formed profile.
ProfileJson2 ==
    [ProfileJson1 EXCEPT
        !.name = JStr("Alex"), !.age = JInt(41),
        !.target_weight_kg = JNull,
        !.activity_level = JStr("very_active"), !.goal = JStr("muscle_gain"),
        !.dietary_restrictions = JList(<<JStr("vegan"), JStr("gluten_free")>>),
        !.budget_constraint = JStr("low")]

\* One key of a profile object given another value.
ProfileEdits ==
    {<<"activity_level", JStr("super_active")>>,
     <<"activity_level", JNull>>,
     <<"goal", JStr("get_fit")>>,
     <<"dietary_restrictions", JList(<<JStr("vegan"), JStr("pescatarian")>>)>>,
     <<"dietary_restrictions", JStr("vegan")>>,
     <<"age", JInt(0)>>,
     <<"age", JFlt(28, FALSE)>>,
     <<"age", JFlt(28, TRUE)>>,
     <<"age", JStr("28")>>,
     <<"age", JStr("twenty")>>,
     <<"name", JInt(7)>>,
     <<"weight_kg", JInt(-5)>>,
     <<"target_weight_kg", JNull>>}

\* The sets of at most n keys of a profile object.
RECURSIVE KeySets(_)
KeySets(n) ==
    IF n = 0 THEN {{}}
    ELSE KeySets(n - 1) \cup
         {S \cup {f} : S \in KeySets(n - 1), f \in ProfileFields}

Without(o, keys) == [f \in DOMAIN o \ keys |-> o[f]]

ProfileDocs ==
    {JObj(Without(ProfileJson1, S)) : S \in KeySets(MaxMissing)}
    \cup {JObj([ProfileJson1 EXCEPT ![e[1]] = e[2]]) : e \in ProfileEdits}
    \cup {JObj(ProfileJson2), JList(<<>>)}

\* How the oracle lays a document out in its text.
Bare == <<DOC>>
FencedJson == FenceJson \o <<"\n", DOC, "\n">> \o Fence
FencedPlain == Fence \o <<"\n", DOC, "\n">> \o Fence
Padded == <<" ", DOC, "\n">>
Chatty == <<PROSE, " ", DOC>>
Layouts == {Bare, FencedJson, FencedPlain, Padded, Chatty, <<PROSE>>}

ProfileResponses ==
    {OracleError}
    \cup {OracleText(Bare, d) : d \in ProfileDocs}
    \cup {OracleText(t, JObj(ProfileJson1)) : t \in Layouts}

\* A meal of the given calories and of size portions of 20 g protein, 40 g
\* carbs and 10 g fat.
Meal(time, name, calories, size) ==
    JObj([meal_time |-> JStr(time), meal_name |-> JStr(name),
          description |-> JStr("a meal"),
          ingredients |-> JList(<<JStr("oats")>>),
          instructions |-> JList(<<JStr("cook")>>),
          nutrition_info |->
              JObj([calories |-> JInt(calories),
                    protein |-> JFlt(20 * size, FALSE),
                    carbs |-> JFlt(40 * size, FALSE),
                    fat |-> JFlt(10 * size, FALSE)]),
          prep_time |-> JStr("10 min"), cooking_time |-> JStr("15 min"),
          difficulty |-> JStr("easy")])

\* A day with its meals and the total the oracle reports for it.
Day(name, meals, reported) ==
    JObj([day |-> JStr(name), meals |-> JList(meals),
          total_calories |-> JInt(reported),
          total_protein |-> JFlt(60, FALSE), total_carbs |-> JFlt(120, FALSE),
          total_fat |-> JFlt(30, FALSE), notes |-> JNull])

DayNames ==
    <<"Monday", "Tuesday", "Wednesday", "Thursday", "Friday", "Saturday",
      "Sunday">>

\* n days: the first has three meals of 300, 500 and 700 calories, the given
\* first meal time and the given reported total; the others have one meal
\* of 1500 calories. Every day has 60 g protein, 120 g carbs and 30 g fat.
Days(n, first, reported) ==
    [i \in 1..n |->
        IF i = 1
        THEN Day(DayNames[i],
                 <<Meal(first, "porridge", 300, 1),
                   Meal("lunch", "salad", 500, 1),
                   Meal("dinner", "fish", 700, 1)>>,
                 reported)
        ELSE Day(DayNames[i], <<Meal("dinner", "stew", 1500, 3)>>, 1500)]

PlanJson(profile, days, weekly) ==
    [user_profile |-> JObj(profile), daily_plans |-> JList(days),
     weekly_summary |->
         JObj([total_calories |-> JInt(weekly), avg_protein |-> JFlt(60, FALSE),
               avg_carbs |-> JFlt(120, FALSE), avg_fat |-> JFlt(30, FALSE)]),
     recommendations |-> JList(<<JStr("drink water")>>),
     shopping_list |-> JList(<<JStr("oats"), JStr("fish")>>),
     created_date |-> JStr("2024-01-01")]

PlanJson1 == PlanJson(ProfileJson1, Days(7, "breakfast", 1500), 10500)

PlanDocs ==
    {JObj(PlanJson1),
     JObj(PlanJson(ProfileJson2, Days(7, "breakfast", 1500), 10500)),
     JObj(PlanJson(ProfileJson1, Days(7, "breakfast", 1600), 10600)),
     JObj(PlanJson(ProfileJson1, Days(7, "breakfast", 1500), 9999)),
     JObj(PlanJson(ProfileJson1, Days(1, "breakfast", 1500), 1500)),
     JObj(PlanJson(ProfileJson1, Days(7, "brunch", 1500), 10500)),
     JObj([PlanJson1 EXCEPT !.shopping_list = JList(<<>>)]),
     JObj([PlanJson1 EXCEPT !.user_profile = JNull]),
     JObj([PlanJson1 EXCEPT !.user_profile =
              JObj(Without(ProfileJson1, {"goal"}))]),
     JList(<<>>)}
    \cup {JObj(Without(PlanJson1, {f})) : f \in DOMAIN PlanJson1}

PlanResponses ==
    {OracleError}
    \cup {OracleText(Bare, d) : d \in PlanDocs}
    \cup {OracleText(t, JObj(PlanJson1)) : t \in Layouts}

\* The pydantic versions the code runs with.
PydanticVersions == {1, 2}

\* What extract_user_profile and create_diet_plan make of each answer,
\* computed once.
Extracted ==
    [v \in PydanticVersions |->
        [resp \in ProfileResponses |-> extract_user_profile(v, resp)]]

Created ==
    [v \in PydanticVersions |->
        [resp \in PlanResponses |-> create_diet_plan(v, resp)]]

-----------------------------------------------------------------------------
(* ai_dietitian.py: chat.                                                  *)

Prompts == {"I want to lose weight"}
Reply == "Tell me about your routine"
Apology == "I apologize, but I'm experiencing technical difficulties."
ChatResponses == {OracleError, OracleText(<<PROSE>>, JStr(Reply))}

\* AIDietitian.chat: the oracle's text, or the apology when the call raised.
chat(message, conversation_history, resp) ==
    IF IsError(resp) THEN Apology ELSE resp.doc.s

-----------------------------------------------------------------------------
(* ai_dietitian.py: what is sent to the oracle.                            *)

Message(role, content) == [role |-> role, content |-> content]

\* _get_system_prompt and _get_few_shot_examples, by their first words.
SystemPrompt == "You are Dr. Sarah Chen"
FewShotExamples ==
    <<[user |-> "Hi, I want to lose weight",
       assistant |-> "Hello! I'm Dr. Sarah Chen"],
      [user |-> "I'm 30, female, 5'6, 180 lbs, want to lose 30 lbs",
       assistant |-> "Thank you for sharing those details!"],
      [user |-> "I work 9-5, mostly sedentary",
       assistant |-> "Perfect! I can see you have a busy work schedule"]>>

\* "for example in self.few_shot_examples": the user and the assistant
\* message of each example, in order.
RECURSIVE FewShotMessages(_)
FewShotMessages(examples) ==
    IF examples = <<>> THEN <<>>
    ELSE <<Message("user", Head(examples).user),
           Message("assistant", Head(examples).assistant)>>
         \o FewShotMessages(Tail(examples))

\* The messages list that chat builds: the system prompt, the examples,
\* conversation_history, and the current message.
ChatPayload(message, conversation_history) ==
    <<Message("system", SystemPrompt)>>
    \o FewShotMessages(FewShotExamples)
    \o conversation_history
    \o <<Message("user", message)>>

\* The JSON structure that extraction_prompt spells out: for each key, the
\* words the prompt shows as its value.
ProfileStructure ==
    [name |-> {"string"}, age |-> {"integer"}, gender |-> {"string"},
     height_cm |-> {"float"}, weight_kg |-> {"float"},
     target_weight_kg |-> {"float", "null"},
     activity_level |->
         {"sedentary", "lightly_active", "moderately_active", "very_active",
          "extremely_active"},
     goal |->
         {"weight_loss", "weight_gain", "maintenance", "muscle_gain",
          "general_health"},
     dietary_restrictions |-> {"list", "of", "restrictions"},
     allergies |-> {"list", "of", "allergies"},
     preferences |-> {"list", "of", "preferences"},
     dislikes |-> {"list", "of", "dislikes"},
     daily_routine |-> {"key", "value"},
     cooking_skill |-> {"string"},
     budget_constraint |-> {"string", "null"},
     cultural_preferences |-> {"list", "of", "preferences"}]

\* The JSON structure that plan_prompt spells out: the profile as "{...}",
\* one day with one meal.
MealStructure ==
    [meal_time |-> {"breakfast"}, meal_name |-> {"string"},
     description |-> {"string"},
     ingredients |-> {"list", "of", "ingredients"},
     instructions |-> {"step", "by", "instructions"},
     nutrition_info |->
         [calories |-> {"integer"}, protein |-> {"float"},
          carbs |-> {"float"}, fat |-> {"float"}],
     prep_time |-> {"string"}, cooking_time |-> {"string"},
     difficulty |-> {"string"}]

DayStructure ==
    [day |-> {"Monday"}, meals |-> <<MealStructure>>,
     total_calories |-> {"integer"}, total_protein |-> {"float"},
     total_carbs |-> {"float"}, total_fat |-> {"float"},
     notes |-> {"string"}]

PlanStructure ==
    [user_profile |-> {"..."}, daily_plans |-> <<DayStructure>>,
     weekly_summary |->
         [total_calories |-> {"integer"}, avg_protein |-> {"float"},
          avg_carbs |-> {"float"}, avg_fat |-> {"float"}],
     recommendations |-> {"list", "of", "recommendations"},
     shopping_list |-> {"list", "of", "items"},
     created_date |-> {"YYYY-MM-DD"}]

\* A user message whose content is a prompt built from parts.
PromptMessage(parts) == [role |-> "user", prompt |-> parts]

\* The messages list of extract_user_profile: the extractor's system
\* message and the prompt with the chain-of-thought text, the transcript
\* and the structure.
ExtractionPayload(conversation_history) ==
    <<Message("system", "You are a data extraction specialist."),
      PromptMessage([cot |-> "profile_extraction",
                     conversation_history |-> conversation_history,
                     structure |-> ProfileStructure])>>

\* The messages list of create_diet_plan: the planner's system message and
\* the prompt with the chain-of-thought text, the profile and the structure.
PlanPayload(profile) ==
    <<Message("system", "You are a nutrition expert."),
      PromptMessage([cot |-> "meal_planning", user_profile |-> profile,
                     structure |-> PlanStructure])>>

-----------------------------------------------------------------------------
(* app.py: the session and the widgets of main().                          *)

\* len(st.session_state.messages) from which a chat request extracts the
\* profile by itself.
ProfileThreshold == 6

\* The session's position in the workflow, read off the session variables.
SessionState ==
    IF conversation_complete THEN "Finalized"
    ELSE IF diet_plan # None THEN "PlanReady"
    ELSE IF user_profile # None THEN "ProfileReady"
    ELSE IF messages # <<>> THEN "Chatting"
    ELSE "Idle"

\* The trace of a request: the widget, the session's position when it was
\* made, whether the widget took it, the oracle calls made for it (by
\* stage, in order) and the messages list sent with each, how its
\* extraction, generation or rendering stage ended ("none" when it ran
\* none) and the value that stage returned.
Trace(op, accepted, calls, status, value) ==
    [op |-> op, before |-> SessionState, accepted |-> accepted,
     calls |-> calls, sent |-> <<>>, status |-> status, value |-> value]

\* The trace of a request that sent the payloads, one for each call.
Sent(trace, payloads) == [trace EXCEPT !.sent = payloads]

\* initialize_session_state on a new session.
Init ==
    /\ messages = <<>>
    /\ user_profile = None
    /\ diet_plan = None
    /\ conversation_complete = FALSE
    /\ pydantic \in PydanticVersions
    /\ answer = None
    /\ last = Trace("start", TRUE, <<>>, "none", None)

\* Mutants of the widget conditions below: a button without its disabled
\* argument, a button rendered in either view, the export offered as soon
\* as a plan is stored.
ExtractProfileEnabled_NoGuard == ~conversation_complete
GenerateDietPlanEnabled_NoGuard == ~conversation_complete
GeneratePDFShown_Always == TRUE
GeneratePDFShown_WithPlan == diet_plan # None
StartNewSessionShown_Always == TRUE

\* More mutants of the widget conditions: the chat input rendered in the
\* final view too, "Complete Session" without its disabled argument.
ChatInputShown_Always == TRUE
CompleteSessionEnabled_NoGuard == ~conversation_complete

\* Which widgets a run of main() renders, and which of them are enabled.
ChatInputShown == ~conversation_complete
ExtractProfileEnabled == ~conversation_complete /\ messages # <<>>
GenerateDietPlanEnabled == ~conversation_complete /\ user_profile # None
CompleteSessionEnabled == ~conversation_complete /\ diet_plan # None
GeneratePDFShown ==
    conversation_complete /\ user_profile # None /\ diet_plan # None
StartNewSessionShown == conversation_complete

\* Mutants of IfTruthy: the result is stored whatever it is; the result is
\* stored only into an empty slot.
IfTruthy_Always(result, stored) == result
IfTruthy_OnlyFirst(result, stored) == IF stored = None THEN result ELSE stored

\* "if profile: st.session_state.user_profile = profile" (and the same for
\* the plan): the slot's value after it.
IfTruthy(result, stored) == IF result # None THEN result ELSE stored

\* A request to a widget that is disabled or not rendered: no handler runs.
Rejected(op) ==
    /\ last' = Trace(op, FALSE, <<>>, "none", None)
    /\ UNCHANGED <<session, env>>

\* A mutant of ChatInput: the transcript is started again with the new
\* message.
ChatInput_Restarts ==
    \/ ~ChatInputShown /\ Rejected("chat")
    \/ /\ ChatInputShown
       /\ Len(messages) + 2 <= MaxMessages
       /\ \E prompt \in Prompts, reply \in ChatResponses :
            LET history == <<Message("user", prompt)>>
                response == chat(prompt, history, reply)
                all == Append(history, Message("assistant", response))
                extracting ==
                    Len(all) >= ProfileThreshold /\ user_profile = None
            IN  /\ messages' = all
                /\ IF extracting
                   THEN \E resp \in ProfileResponses :
                          LET out == Extracted[pydantic][resp]
                          IN  /\ user_profile' =
                                    IfTruthy(out.value, user_profile)
                              /\ last' =
                                    Sent(Trace("chat", TRUE,
                                               <<"chat", "extract">>,
                                               out.status, out.value),
                                         <<ChatPayload(prompt, history),
                                           ExtractionPayload(all)>>)
                   ELSE /\ user_profile' = user_profile
                        /\ last' =
                              Sent(Trace("chat", TRUE, <<"chat">>, "none",
                                         None),
                                   <<ChatPayload(prompt, history)>>)
       /\ UNCHANGED <<diet_plan, conversation_complete, env>>

\* st.chat_input: the user's message and the reply are appended; from
\* ProfileThreshold messages on, and while no profile is stored, the
\* profile is extracted in the same run.
ChatInput ==
    \/ ~ChatInputShown /\ Rejected("chat")
    \/ /\ ChatInputShown
       /\ Len(messages) + 2 <= MaxMessages
       /\ \E prompt \in Prompts, reply \in ChatResponses :
            LET history == Append(messages, Message("user", prompt))
                response == chat(prompt, history, reply)
                all == Append(history, Message("assistant", response))
                extracting ==
                    Len(all) >= ProfileThreshold /\ user_profile = None
            IN  /\ messages' = all
                /\ IF extracting
                   THEN \E resp \in ProfileResponses :
                          LET out == Extracted[pydantic][resp]
                          IN  /\ user_profile' =
                                    IfTruthy(out.value, user_profile)
                              /\ last' =
                                    Sent(Trace("chat", TRUE,
                                               <<"chat", "extract">>,
                                               out.status, out.value),
                                         <<ChatPayload(prompt, history),
                                           ExtractionPayload(all)>>)
                   ELSE /\ user_profile' = user_profile
                        /\ last' =
                              Sent(Trace("chat", TRUE, <<"chat">>, "none",
                                         None),
                                   <<ChatPayload(prompt, history)>>)
       /\ UNCHANGED <<diet_plan, conversation_complete, env>>

\* A mutant of ExtractProfile: a failed extraction is tried once more.
ExtractProfile_Retry(resp) ==
    /\ ExtractProfileEnabled
    /\ LET out == Extracted[pydantic][resp]
       IN  IF out.value # None
           THEN /\ user_profile' = out.value
                /\ last' = Sent(Trace("extract", TRUE, <<"extract">>,
                                      out.status, out.value),
                                <<ExtractionPayload(messages)>>)
           ELSE \E again \in ProfileResponses :
                  LET retried == Extracted[pydantic][again]
                  IN  /\ user_profile' = IfTruthy(retried.value, user_profile)
                      /\ last' = Sent(Trace("extract", TRUE,
                                            <<"extract", "extract">>,
                                            retried.status, retried.value),
                                      <<ExtractionPayload(messages),
                                        ExtractionPayload(messages)>>)
    /\ UNCHANGED <<messages, diet_plan, conversation_complete, env>>

\* The handler of the "Extract Profile" button, the oracle answering resp.
ExtractProfile(resp) ==
    /\ ExtractProfileEnabled
    /\ LET out == Extracted[pydantic][resp]
       IN  /\ user_profile' = IfTruthy(out.value, user_profile)
           /\ last' = Sent(Trace("extract", TRUE, <<"extract">>, out.status,
                                 out.value),
                           <<ExtractionPayload(messages)>>)
    /\ UNCHANGED <<messages, diet_plan, conversation_complete, env>>

\* The "Extract Profile" button.
ExtractProfileButton ==
    \/ ~ExtractProfileEnabled /\ Rejected("extract")
    \/ \E resp \in ProfileResponses : ExtractProfile(resp)

\* The handler of the "Generate Diet Plan" button, the oracle answering
\* resp. An exception that create_diet_plan raises is caught and shown;
\* with no profile, user_profile.json raises before the oracle is called.
GenerateDietPlan(resp) ==
    /\ GenerateDietPlanEnabled
    /\ LET out == IF user_profile = None
                  THEN [value |-> None, status |-> "raised"]
                  ELSE Created[pydantic][resp]
           calls == IF out.status = "raised" THEN <<>> ELSE <<"generate">>
           payloads == IF out.status = "raised" THEN <<>>
                       ELSE <<PlanPayload(Get(user_profile))>>
       IN  /\ diet_plan' = IfTruthy(out.value, diet_plan)
           /\ last' = Sent(Trace("generate", TRUE, calls, out.status,
                                 out.value),
                           payloads)
    /\ UNCHANGED <<messages, user_profile, conversation_complete, env>>

\* The "Generate Diet Plan" button.
GenerateDietPlanButton ==
    \/ ~GenerateDietPlanEnabled /\ Rejected("generate")
    \/ \E resp \in PlanResponses : GenerateDietPlan(resp)

\* The "Complete Session" button.
CompleteSessionButton ==
    \/ ~CompleteSessionEnabled /\ Rejected("complete")
    \/ /\ CompleteSessionEnabled
       /\ conversation_complete' = TRUE
       /\ last' = Trace("complete", TRUE, <<>>, "none", None)
       /\ UNCHANGED <<messages, user_profile, diet_plan, env>>

\* The "Generate PDF" button: the renderer builds the document from the
\* stored plan, or raises.
GeneratePDFButton ==
    \/ ~GeneratePDFShown /\ Rejected("export")
    \/ /\ GeneratePDFShown
       /\ \E status \in {"ok", "render_error"} :
            last' = Trace("export", TRUE, <<>>, status, None)
       /\ UNCHANGED <<session, env>>

\* A mutant of StartNewSessionButton: the plan is not cleared.
StartNewSessionButton_KeepsPlan ==
    \/ ~StartNewSessionShown /\ Rejected("reset")
    \/ /\ StartNewSessionShown
       /\ messages' = <<>>
       /\ user_profile' = None
       /\ conversation_complete' = FALSE
       /\ last' = Trace("reset", TRUE, <<>>, "none", None)
       /\ UNCHANGED <<diet_plan, env>>

\* The "Start New Session" and "Start Over" buttons.
StartNewSessionButton ==
    \/ ~StartNewSessionShown /\ Rejected("reset")
    \/ /\ StartNewSessionShown
       /\ messages' = <<>>
       /\ user_profile' = None
       /\ diet_plan' = None
       /\ conversation_complete' = FALSE
       /\ last' = Trace("reset", TRUE, <<>>, "none", None)
       /\ UNCHANGED env

Next ==
    \/ ChatInput
    \/ ExtractProfileButton
    \/ GenerateDietPlanButton
    \/ CompleteSessionButton
    \/ GeneratePDFButton
    \/ StartNewSessionButton

Spec == Init /\ [][Next]_vars

-----------------------------------------------------------------------------
(* Profile extraction studied answer by answer: a session in which one     *)
(* message has been exchanged, and the "Extract Profile" button pressed    *)
(* with the oracle giving the fixed answer.                                *)

InitExtract ==
    /\ messages = <<Message("user", "I want to lose weight"),
                    Message("assistant", Reply)>>
    /\ user_profile = None
    /\ diet_plan = None
    /\ conversation_complete = FALSE
    /\ pydantic \in PydanticVersions
    /\ answer \in {Some(resp) : resp \in ProfileResponses}
    /\ last = Sent(Trace("chat", TRUE, <<"chat">>, "none", None),
                   <<ChatPayload("I want to lose weight",
                                 <<Message("user",
                                           "I want to lose weight")>>)>>)

NextExtract == ExtractProfile(Get(answer))

SpecExtract == InitExtract /\ [][NextExtract]_vars

-----------------------------------------------------------------------------
(* Both pipelines studied answer by answer: the session of InitExtract     *)
(* with the "Extract Profile" button pressed, and a session that holds the *)
(* demo profile (and in which "Complete Session" was tried too early) with *)
(* the "Generate Diet Plan" button pressed, the oracle giving the fixed    *)
(* answer.                                                                 *)

InitGenerate ==
    /\ pydantic \in PydanticVersions
    /\ messages = <<Message("user", "I want to lose weight"),
                    Message("assistant", Reply)>>
    /\ user_profile = UserProfile(pydantic, ProfileJson1)
    /\ diet_plan = None
    /\ conversation_complete = FALSE
    /\ answer \in {Some(resp) : resp \in PlanResponses}
    /\ last = Trace("complete", FALSE, <<>>, "none", None)

InitPipeline == InitExtract \/ InitGenerate

NextPipeline ==
    \/ /\ user_profile = None
       /\ Get(answer) \in ProfileResponses
       /\ ExtractProfile(Get(answer))
    \/ /\ Get(answer) \in PlanResponses
       /\ GenerateDietPlan(Get(answer))

SpecPipeline == InitPipeline /\ [][NextPipeline]_vars

-----------------------------------------------------------------------------
(* The clean-up of the oracle's text studied text by text: the text is     *)
(* cleaned as extract_user_profile and create_diet_plan clean it, and the  *)
(* result is cleaned again.                                                *)

\* What an oracle text is made of.
Pieces == {Fence, FenceJson, <<"\n">>, <<DOC>>, <<PROSE>>}

\* The texts of at most n pieces drawn from pieces.
RECURSIVE Texts(_, _)
Texts(pieces, n) ==
    IF n = 0 THEN {<<>>}
    ELSE Texts(pieces, n - 1) \cup
         {t \o piece : t \in Texts(pieces, n - 1), piece \in pieces}

InitSanitize ==
    /\ messages = <<>>
    /\ user_profile = None
    /\ diet_plan = None
    /\ conversation_complete = FALSE
    /\ pydantic \in PydanticVersions
    /\ answer \in {Some(t) : t \in Texts(Pieces, MaxPieces)}
    /\ last = Trace("start", TRUE, <<>>, "none", None)

\* The clean-up applied to the oracle's text.
SanitizeText ==
    /\ last.op = "start"
    /\ last' = Trace("sanitize", TRUE, <<>>, "none",
                     Some(Sanitize(Get(answer))))
    /\ UNCHANGED <<session, env>>

\* The clean-up applied to its own result.
SanitizeAgain ==
    /\ last.op = "sanitize"
    /\ last' = Trace("sanitize again", TRUE, <<>>, "none",
                     Some(Sanitize(Get(last.value))))
    /\ UNCHANGED <<session, env>>

NextSanitize == SanitizeText \/ SanitizeAgain

SpecSanitize == InitSanitize /\ [][NextSanitize]_vars

-----------------------------------------------------------------------------
(* Properties.                                                             *)

\* How a profile extraction or a plan generation fails.
Failures == {"oracle_error", "malformed", "invalid"}

\* C1: a plan generation request made while no profile is stored (in Idle
\* or Chatting) is rejected: no oracle call is made for it and the session
\* is left as it was.
C1_GenerateNeedsProfile ==
    [][(last'.op = "generate" /\ user_profile = None)
          => (~last'.accepted /\ last'.calls = <<>> /\ UNCHANGED session)]_vars

\* A plan generation request was rejected in Chatting.
C1_Witness ==
    last.op = "generate" /\ last.before = "Chatting" /\ ~last.accepted

\* C2: a request whose profile extraction or plan generation fails (oracle
\* error, unparseable text, schema-invalid document) leaves the stored
\* profile, the stored plan and the session's position as they were; a
\* failed button request leaves the whole session as it was.
C2_FailureKeepsSession ==
    [][(last'.op \in {"chat", "extract", "generate"}
          /\ last'.status \in Failures)
          => /\ user_profile' = user_profile
             /\ diet_plan' = diet_plan
             /\ SessionState' = SessionState
             /\ last'.op # "chat" => UNCHANGED session]_vars

\* An extraction failed on a schema-invalid document while a profile and a
\* plan from earlier runs were stored, and they still are.
C2_Witness ==
    /\ last.op = "extract" /\ last.status = "invalid"
    /\ last.before = "PlanReady"
    /\ user_profile # None /\ diet_plan # None

\* C3 as claimed: a reset request is taken in every position of the session
\* and puts it in Idle.
C3_ResetFromAnyState ==
    [][last'.op = "reset"
          => (last'.accepted /\ SessionState' = "Idle")]_vars

\* C3, amended: a reset request is taken exactly when the session is
\* Finalized, and a reset that is taken puts the session in Idle.
C3_ResetWhenFinalized ==
    [][last'.op = "reset"
          => /\ last'.accepted <=> SessionState = "Finalized"
             /\ last'.accepted => SessionState' = "Idle"]_vars

\* A reset was taken in Finalized and the session is in Idle.
C3_Witness ==
    /\ last.op = "reset" /\ last.accepted /\ last.before = "Finalized"
    /\ SessionState = "Idle"

\* C4: a reset leaves the session as initialize_session_state creates it
\* (empty transcript, no profile, no plan, not complete), and a step that
\* turns a stored profile or a stored plan into None is a reset.
C4_ResetAndOnlyResetClears ==
    [][/\ (last'.op = "reset" /\ last'.accepted)
            => /\ messages' = <<>>
               /\ user_profile' = None
               /\ diet_plan' = None
               /\ conversation_complete' = FALSE
       /\ (\/ user_profile # None /\ user_profile' = None
           \/ diet_plan # None /\ diet_plan' = None)
            => (last'.op = "reset" /\ last'.accepted)]_vars

\* After a reset the session variables have their initial values.
C4_Witness ==
    /\ last.op = "reset" /\ last.accepted
    /\ messages = <<>> /\ user_profile = None /\ diet_plan = None
    /\ ~conversation_complete

\* C5: an export request made while no plan is stored (in Idle, Chatting or
\* ProfileReady) is rejected, so the renderer never runs without a plan.
C5_ExportNeedsPlan ==
    [][(last'.op = "export" /\ diet_plan = None) => ~last'.accepted]_vars

\* An export request was rejected in ProfileReady.
C5_Witness ==
    last.op = "export" /\ last.before = "ProfileReady" /\ ~last.accepted

\* C6 as claimed: in PlanReady an export request is taken and leaves the
\* session as it was.
C6_ExportInPlanReady ==
    [][(last'.op = "export" /\ SessionState = "PlanReady")
          => (last'.accepted /\ UNCHANGED session)]_vars

\* C6, amended: an export request is taken exactly when the session is
\* Finalized, and whether taken or not it leaves the session (position,
\* transcript, profile, plan) as it was.
C6_ExportWhenFinalized ==
    [][last'.op = "export"
          => /\ last'.accepted <=> SessionState = "Finalized"
             /\ UNCHANGED session]_vars

\* A document was rendered for a Finalized session.
C6_Witness ==
    /\ last.op = "export" /\ last.accepted /\ last.status = "ok"
    /\ last.before = "Finalized" /\ SessionState = "Finalized"

\* C7: an extraction request in ProfileReady or PlanReady and a generation
\* request in PlanReady are taken; when one succeeds the stored value
\* becomes the new one and the session's position does not change.
C7_RerunReplaces ==
    [][/\ (last'.op = "extract"
             /\ SessionState \in {"ProfileReady", "PlanReady"})
            => last'.accepted
       /\ (last'.op = "generate" /\ SessionState = "PlanReady")
            => last'.accepted
       /\ (last'.op = "extract" /\ last'.status = "ok"
             /\ user_profile # None)
            => (user_profile' = last'.value
                  /\ SessionState' = SessionState)
       /\ (last'.op = "generate" /\ last'.status = "ok"
             /\ diet_plan # None)
            => (diet_plan' = last'.value
                  /\ SessionState' = SessionState)]_vars

\* A profile was extracted again in PlanReady and is the stored one.
C7_Witness ==
    /\ last.op = "extract" /\ last.status = "ok"
    /\ last.before = "PlanReady" /\ SessionState = "PlanReady"
    /\ user_profile = last.value

\* C8: a request makes the extraction call only on a non-empty transcript,
\* and a successful extraction requested in Chatting stores the returned
\* profile and puts the session in ProfileReady.
C8_ExtractionFromChatting ==
    [][/\ (\E i \in DOMAIN last'.calls : last'.calls[i] = "extract")
            => /\ messages' # <<>>
               /\ last'.op = "extract" => messages # <<>>
       /\ (last'.op \in {"chat", "extract"} /\ last'.status = "ok"
             /\ SessionState = "Chatting")
            => /\ user_profile' # None
               /\ user_profile' = last'.value
               /\ SessionState' = "ProfileReady"]_vars

\* The button extracted a profile in Chatting; the session is in
\* ProfileReady.
C8_Witness ==
    /\ last.op = "extract" /\ last.status = "ok"
    /\ last.before = "Chatting" /\ SessionState = "ProfileReady"

\* The oracle's text parses to a JSON object without one of the fields
\* that models.py does not annotate Optional.
LacksRequired(resp) ==
    /\ ~IsError(resp)
    /\ LET parsed == JsonLoads(Sanitize(resp.text), resp.doc)
       IN  /\ parsed # None
           /\ Get(parsed).k = "obj"
           /\ \E f \in ProfileFields \ ProfileOptional :
                f \notin DOMAIN Get(parsed).o

\* C9 (under SpecExtract): when the parsed object lacks a required field,
\* the extraction ends in a validation failure, returns no profile, and no
\* profile is stored.
C9_MissingFieldRejected ==
    (last.op = "extract" /\ LacksRequired(Get(answer)))
        => (last.status = "invalid" /\ last.value = None
              /\ user_profile = None)

\* An extraction was run on an object that lacks a required field.
C9_Witness ==
    /\ last.op = "extract" /\ last.accepted
    /\ LacksRequired(Get(answer))

\* A profile whose activity_level, goal and dietary_restrictions hold
\* members of the enumerations only.
EnumsValid(p) ==
    /\ p.activity_level.k = "str" /\ p.activity_level.s \in ActivityLevel
    /\ p.goal.k = "str" /\ p.goal.s \in Goal
    /\ p.dietary_restrictions.k = "list"
    /\ \A i \in DOMAIN p.dietary_restrictions.items :
          /\ p.dietary_restrictions.items[i].k = "str"
          /\ p.dietary_restrictions.items[i].s \in DietaryRestriction

\* C10: the enumerations have 5, 5 and 9 values, and the stored profile, as
\* every profile an extraction returns, holds members of them only.
C10_StoredEnumsValid ==
    /\ Cardinality(ActivityLevel) = 5
    /\ Cardinality(Goal) = 5
    /\ Cardinality(DietaryRestriction) = 9
    /\ user_profile # None => EnumsValid(Get(user_profile))
    /\ (last.op \in {"chat", "extract"} /\ last.value # None)
          => EnumsValid(Get(last.value))

\* A profile with two dietary restrictions is stored.
C10_Witness ==
    /\ user_profile # None
    /\ Len(Get(user_profile).dietary_restrictions.items) = 2

\* Twice the number that a JSON number stands for.
Twice(x) ==
    IF x.k = "int" THEN 2 * x.n ELSE 2 * x.w + (IF x.frac THEN 1 ELSE 0)

RECURSIVE SumTwice(_)
SumTwice(xs) ==
    IF xs = <<>> THEN 0 ELSE Twice(Head(xs)) + SumTwice(Tail(xs))

\* A day's total equals the sum of the figure over the day's meals.
TotalIsSum(day, total, figure) ==
    Twice(day[total]) =
        SumTwice([i \in DOMAIN day.meals.items |->
                     day.meals.items[i].nutrition_info.o[figure]])

\* C11: in the stored plan every day's total_calories, total_protein,
\* total_carbs and total_fat equal the sums of its meals' figures.
C11_DailyTotalsAreSums ==
    diet_plan # None =>
        \A i \in DOMAIN Get(diet_plan).daily_plans.items :
            LET day == Get(diet_plan).daily_plans.items[i]
            IN  /\ TotalIsSum(day, "total_calories", "calories")
                /\ TotalIsSum(day, "total_protein", "protein")
                /\ TotalIsSum(day, "total_carbs", "carbs")
                /\ TotalIsSum(day, "total_fat", "fat")

\* The weekly figure, multiplied by count, equals the sum of the daily
\* totals.
SummaryMatches(plan, figure, count, total) ==
    count * Twice(plan.weekly_summary.o[figure]) =
        SumTwice([i \in DOMAIN plan.daily_plans.items |->
                     plan.daily_plans.items[i][total]])

\* C12: in the stored plan weekly_summary.total_calories is the sum of the
\* daily total_calories, and avg_protein, avg_carbs and avg_fat are the
\* means of the daily totals.
C12_WeeklySummaryConsistent ==
    diet_plan # None =>
        LET plan == Get(diet_plan)
            n == Len(plan.daily_plans.items)
        IN  /\ SummaryMatches(plan, "total_calories", 1, "total_calories")
            /\ SummaryMatches(plan, "avg_protein", n, "total_protein")
            /\ SummaryMatches(plan, "avg_carbs", n, "total_carbs")
            /\ SummaryMatches(plan, "avg_fat", n, "total_fat")

\* C13: the stored plan, as every plan a generation returns, has exactly 7
\* daily plans.
C13_SevenDailyPlans ==
    /\ diet_plan # None => Len(Get(diet_plan).daily_plans.items) = 7
    /\ (last.op = "generate" /\ last.value # None)
          => Len(Get(last.value).daily_plans.items) = 7

\* C14 (under SpecSanitize): cleaning a cleaned text gives the cleaned text
\* back.
C14_SanitizeIdempotent ==
    [][last'.op = "sanitize again" => last'.value = last.value]_vars

\* The texts without a fence marker.
Bodies == Texts({<<"\n">>, <<DOC>>, <<PROSE>>}, MaxPieces)

\* C15 (under SpecSanitize): a text T between a fence opener, with the json
\* hint or without, and a fence closer is cleaned to T without its
\* surrounding whitespace.
C15_FencedIsTrimmed ==
    last.op = "sanitize" =>
        \A opener \in {Fence, FenceJson}, T \in Bodies :
            Get(answer) = opener \o T \o Fence
                => Get(last.value) = Strip(T)

\* The oracle answered the demo profile with field f given the value x.
AnswerIs(f, x) ==
    Get(answer) = OracleText(Bare, JObj([ProfileJson1 EXCEPT ![f] = x]))

\* The extraction returned a profile whose field f is x.
Returned(f, x) ==
    last.status = "ok" /\ last.value # None /\ Get(last.value)[f] = x

\* C16 as claimed (under SpecExtract): a whole float for the int field age
\* is accepted; a fractional float or a numeric string for age, and a
\* number for the str field name, are validation failures.
C16_OnlyWholeFloatCoerced ==
    last.op = "extract" =>
        /\ AnswerIs("age", JFlt(28, FALSE)) => Returned("age", JInt(28))
        /\ AnswerIs("age", JFlt(28, TRUE)) => last.status = "invalid"
        /\ AnswerIs("age", JStr("28")) => last.status = "invalid"
        /\ AnswerIs("name", JInt(7)) => last.status = "invalid"

\* C16, amended (under SpecExtract): a whole float and a string holding an
\* integer literal are accepted for age and become the integer; a string
\* that holds no number is a validation failure; a fractional float for age
\* and a number for name are validation failures with pydantic 2 and are
\* coerced (truncated, turned into text) with pydantic 1.
C16_Coercion ==
    last.op = "extract" =>
        /\ AnswerIs("age", JFlt(28, FALSE)) => Returned("age", JInt(28))
        /\ AnswerIs("age", JStr("28")) => Returned("age", JInt(28))
        /\ AnswerIs("age", JStr("twenty")) => last.status = "invalid"
        /\ AnswerIs("age", JFlt(28, TRUE)) =>
              IF pydantic = 2 THEN last.status = "invalid"
              ELSE Returned("age", JInt(28))
        /\ AnswerIs("name", JInt(7)) =>
              IF pydantic = 2 THEN last.status = "invalid"
              ELSE Returned("name", JStr("7"))

\* With pydantic 2, the string "28" was given for age and the profile
\* returned has age 28.
C16_Witness ==
    /\ last.op = "extract" /\ pydantic = 2
    /\ AnswerIs("age", JStr("28")) /\ Returned("age", JInt(28))

\* A JSON number above zero.
Positive(x) == x.k \in {"int", "float"} /\ Twice(x) > 0

\* C17: the stored profile has age, height_cm and weight_kg above zero, and
\* target_weight_kg above zero unless it is null.
C17_StoredNumbersPositive ==
    user_profile # None =>
        LET p == Get(user_profile)
        IN  /\ Positive(p.age)
            /\ Positive(p.height_cm)
            /\ Positive(p.weight_kg)
            /\ p.target_weight_kg = JNull \/ Positive(p.target_weight_kg)

\* The fields annotated List[...] of a model class.
ListFields(class) ==
    {f \in DOMAIN Schema(class) : Schema(class)[f].t = "List"}

\* The fields of the class that the JSON object of the oracle's text
\* lacks; none when the text carries no JSON object.
Missing(resp, class) ==
    IF IsError(resp) THEN {}
    ELSE LET parsed == JsonLoads(Sanitize(resp.text), resp.doc)
         IN  IF parsed = None \/ Get(parsed).k # "obj" THEN {}
             ELSE DOMAIN Schema(class) \ DOMAIN Get(parsed).o

\* The model class that the last request's pipeline builds.
LastClass == IF last.op = "extract" THEN "UserProfile" ELSE "WeeklyDietPlan"

\* The last request asked the oracle and ran a pipeline on its answer.
Asked == last.op \in {"extract", "generate"} /\ last.calls # <<>>

\* C18 as claimed (under SpecPipeline): when the oracle's object lacks
\* list-typed fields only, the pipeline succeeds and the result holds the
\* empty list for them.
C18_MissingListIsEmpty ==
    LET missing == Missing(Get(answer), LastClass)
    IN  (Asked /\ missing # {} /\ missing \subseteq ListFields(LastClass))
            => /\ last.status = "ok"
               /\ \A f \in missing : Get(last.value)[f] = JList(<<>>)

\* C18, amended (under SpecPipeline): when the oracle's object lacks a
\* list-typed field the pipeline ends in a validation failure and returns
\* and stores nothing; a list-typed field given as the empty array is the
\* empty list of the result.
C18_MissingListRejected ==
    LET missing == Missing(Get(answer), LastClass)
    IN  /\ (Asked /\ missing \cap ListFields(LastClass) # {})
              => /\ last.status = "invalid" /\ last.value = None
                 /\ last.op = "extract" => user_profile = None
                 /\ last.op = "generate" => diet_plan = None
        /\ (last.op = "extract" /\ pydantic = 1
               /\ Get(answer) = OracleText(Bare, JObj(ProfileJson1)))
              => Returned("allergies", JList(<<>>))
        /\ (last.op = "generate" /\ pydantic = 1
               /\ Get(answer) = OracleText(Bare,
                      JObj([PlanJson1 EXCEPT !.shopping_list = JList(<<>>)])))
              => Returned("shopping_list", JList(<<>>))

\* A plan generation ran on an object without recommendations.
C18_Witness ==
    /\ Asked /\ last.op = "generate"
    /\ "recommendations" \in Missing(Get(answer), "WeeklyDietPlan")

C20_NoAutomaticRetry ==
    [][/\ \A i, j \in DOMAIN last'.calls :
             last'.calls[i] = last'.calls[j] => i = j
       /\ last'.status \in Failures
            => /\ last'.calls # <<>>
               /\ last'.calls[Len(last'.calls)] \in {"extract", "generate"}
               /\ user_profile' = user_profile
               /\ diet_plan' = diet_plan]_vars

\* A chat request made its chat call and one extraction call, which met a
\* transport error.
C20_Witness ==
    /\ last.op = "chat" /\ last.calls = <<"chat", "extract">>
    /\ last.status = "oracle_error"

\* C21: a step that is no reset leaves the messages of the transcript as
\* they are and in their order, and adds messages at its end only.
C21_TranscriptAppendOnly ==
    [][(last'.op = "reset" /\ last'.accepted)
          \/ /\ Len(messages') >= Len(messages)
             /\ SubSeq(messages', 1, Len(messages)) = messages]_vars

\* A chat request added its two messages to a transcript of two.
C21_Witness ==
    /\ last.op = "chat" /\ last.before = "Chatting"
    /\ Len(messages) = 4

\* C23: the messages list of a chat request is the system message, the
\* example exchanges, the transcript as it was before the request, and the
\* request's user message once, at the end.
C23_ChatPayloadExact ==
    [][(last'.op = "chat" /\ last'.accepted)
          => last'.sent[1] =
                <<Message("system", SystemPrompt)>>
                \o FewShotMessages(FewShotExamples)
                \o messages
                \o <<messages'[Len(messages) + 1]>>]_vars

\* The structure names every field of the schema and shows, for a field
\* annotated with an Enum or a List of an Enum, the members of the Enum.
SchemaShown(structure, schema) ==
    \A f \in DOMAIN schema :
        /\ f \in DOMAIN structure
        /\ schema[f].t = "Enum" => structure[f] = schema[f].members
        /\ (schema[f].t = "List" /\ schema[f].of.t = "Enum")
              => structure[f] = schema[f].of.members

\* C24: the prompt of every profile extraction call and of every plan
\* generation call shows the target schema: every field, and for
\* activity_level, goal, dietary_restrictions and meal_time all the allowed
\* values.
C24_PromptShowsSchema ==
    \A i \in DOMAIN last.calls :
        LET structure == last.sent[i][2].prompt.structure
        IN  /\ last.calls[i] = "extract"
                  => SchemaShown(structure, UserProfileSchema)
            /\ last.calls[i] = "generate"
                  => /\ SchemaShown(structure, WeeklyDietPlanSchema)
                     /\ SchemaShown(structure.daily_plans[1],
                                    DailyPlanSchema)
                     /\ SchemaShown(structure.daily_plans[1].meals[1],
                                    MealPlanSchema)

\* C25: a stored plan comes with a stored profile, and a completed session
\* holds a profile and a plan, so that the final view never takes its
\* "Missing profile or diet plan" branch.
C25_PlanImpliesProfile ==
    /\ diet_plan # None => user_profile # None
    /\ conversation_complete => (user_profile # None /\ diet_plan # None)

\* A completed session with its profile and its plan.
C25_Witness ==
    /\ conversation_complete /\ last.op = "complete"
    /\ user_profile # None /\ diet_plan # None

\* C26: an extraction that replaces the stored profile by another one does
\* not leave the plan that was made for the replaced profile in the session.
C26_PlanFollowsProfile ==
    [][(last'.op \in {"chat", "extract"} /\ last'.status = "ok"
          /\ diet_plan # None /\ user_profile' # user_profile)
          => diet_plan' # diet_plan]_vars

\* C27: the profile inside a plan that create_diet_plan returns is the
\* profile that was passed to it.
C27_PlanEmbedsPassedProfile ==
    (last.op = "generate" /\ last.status = "ok")
        => Get(last.value).user_profile =
              last.sent[1][2].prompt.user_profile

\* C28: the assistant messages of the transcript are texts of the oracle:
\* the apology of a failed chat call is not among them.
C28_NoErrorTextInTranscript ==
    \A i \in DOMAIN messages :
        messages[i].role = "assistant" => messages[i].content # Apology

\* C29: the session becomes complete by a "Complete Session" request made
\* while a plan is stored, and by nothing else; while it is complete no
\* chat, extraction or generation request is taken and none calls the
\* oracle, and the transcript, the profile and the plan change by a reset
\* only.
C29_FinalizedIsFrozen ==
    [][/\ (~conversation_complete /\ conversation_complete')
            => (last'.op = "complete" /\ last'.accepted /\ diet_plan # None)
       /\ conversation_complete
            => /\ last'.op \in {"chat", "extract", "generate"}
                    => (~last'.accepted /\ last'.calls = <<>>)
               /\ \/ last'.op = "reset" /\ last'.accepted
                  \/ UNCHANGED <<messages, user_profile, diet_plan>>]_vars

\* A chat request was turned down in a completed session.
C29_Witness ==
    /\ last.op = "chat" /\ ~last.accepted /\ last.before = "Finalized"
    /\ conversation_complete

====
